---- MODULE Spec2Model ----
(***************************************************************************)
(* A model of CJKAnchorImport (plugin.py): the GPOS reader that reduces    *)
(* palt/vpal single-positioning lookups to per-glyph edge insets, the      *)
(* guide-based (UFO) reader, and the anchor import that consumes either.   *)
(*                                                                         *)
(* Python values are modelled as follows.  A dict is a function whose      *)
(* DOMAIN is its key set; a list is a sequence; a namedtuple is a record.  *)
(* A Lookup object is identified by its index in LookupList.Lookup (the    *)
(* code keys its cache by object identity).  LookupListIndex values are    *)
(* 0-based as in the font, sequences are 1-based.                          *)
(***************************************************************************)
EXTENDS Integers, Sequences, FiniteSets

VARIABLES
    pc,      \* position of the operation under study
    font,    \* the font handed to a reader (TTFont or GSFont view)
    self,    \* the reader's private fields after __setup
    arg,     \* argument of a helper studied on its own
    ret,     \* its return value
    layers,  \* import: (glyph name, master id) -> layer state
    cursor   \* import: number of (glyph, master) iterations done

vars == <<pc, font, self, arg, ret, layers, cursor>>

(***************************************************************************)
(* Bounds of the model.                                                    *)
(***************************************************************************)
MaxTags == 4        \* FeatureRecords in a FeatureList studied for tags()
MaxAdj == 3         \* Adjustments in a list handed to the reduction
MaxCov == 2         \* glyphs in a Coverage, values in a Value array
MaxSubTables == 2   \* subtables of a lookup
MaxRecords == 3     \* FeatureRecords of a GPOS table handed to the reader
MaxGuides == 4      \* guides of a glyph studied on its own
MaxFontGuides == 2  \* guides of the first glyph of a UFO font

(***************************************************************************)
(* Generic helpers.                                                        *)
(***************************************************************************)
Range(s) == {s[i] : i \in 1..Len(s)}

SeqsUpTo(S, n) == UNION {[1..k -> S] : k \in 0..n}

RECURSIVE Flatten(_)
\* sum(list_of_lists, [])
Flatten(ss) == IF ss = <<>> THEN <<>> ELSE Head(ss) \o Flatten(Tail(ss))

RECURSIVE sorted(_)
\* sorted(set_of_ints)
sorted(S) ==
    IF S = {} THEN <<>>
    ELSE LET m == CHOOSE x \in S : \A y \in S : x <= y
         IN <<m>> \o sorted(S \ {m})

\* list.index(x): position of the first occurrence (1-based here)
index(l, x) == CHOOSE i \in 1..Len(l) : l[i] = x /\ \A j \in 1..(i - 1) : l[j] # x

RECURSIVE sorted_by_index(_, _)
\* sorted(s, key=lambda x: l.index(x))
sorted_by_index(s, l) ==
    IF s = {} THEN <<>>
    ELSE LET m == CHOOSE x \in s : \A y \in s : index(l, x) <= index(l, y)
         IN <<m>> \o sorted_by_index(s \ {m}, l)

(***************************************************************************)
(* Data model (plugin.py 151-155).                                         *)
(***************************************************************************)
H == 0
V == 1

Adjustment(glyph, placement, advance, direction) ==
    [glyph |-> glyph, placement |-> placement, advance |-> advance,
     direction |-> direction]

EdgeInsets(left, right, top, bottom) ==
    [left |-> left, right |-> right, top |-> top, bottom |-> bottom]

VerticalMetrics(height, TSB) == [height |-> height, TSB |-> TSB]

(***************************************************************************)
(* GPOS reader: tags.                                                      *)
(***************************************************************************)
FeatureTags(table) ==
    [i \in 1..Len(table.FeatureRecord) |-> table.FeatureRecord[i].FeatureTag]

\* a plausible slip: the raw tag list, duplicates kept
make_tag_list_nodedupe(table) == FeatureTags(table)

make_tag_list(table) ==
    LET l == FeatureTags(table)
        s == Range(l)
    IN sorted_by_index(s, l)

tags(reader) == reader.tag_list

has_metrics_any_tag(reader) == tags(reader) # <<>>

has_metrics(reader) ==
    "palt" \in Range(tags(reader)) \/ "vpal" \in Range(tags(reader))

(***************************************************************************)
(* GPOS reader: reduction of a glyph's adjustments to EdgeInsets.          *)
(***************************************************************************)
RECURSIVE accumulate(_, _)
\* the loop of __make_edge_insets_from_adjustments; acc is
\* <<placement_x, advance_x, placement_y, advance_y>>
accumulate(adjustments, acc) ==
    IF adjustments = <<>> THEN acc
    ELSE LET adjustment == Head(adjustments)
             next == IF adjustment.direction = H
                     THEN <<acc[1] + adjustment.placement,
                            acc[2] + adjustment.advance, acc[3], acc[4]>>
                     ELSE IF adjustment.direction = V
                     THEN <<acc[1], acc[2],
                            acc[3] + adjustment.placement,
                            acc[4] + adjustment.advance>>
                     ELSE acc
         IN accumulate(Tail(adjustments), next)

\* a plausible slip: right computed like bottom, -(advance + placement)
make_edge_insets_from_adjustments_sym(adjustments) ==
    LET acc == accumulate(adjustments, <<0, 0, 0, 0>>)
    IN EdgeInsets(-acc[1], -(acc[2] + acc[1]), acc[3], -(acc[4] + acc[3]))

make_edge_insets_from_adjustments(adjustments) ==
    LET acc == accumulate(adjustments, <<0, 0, 0, 0>>)
    IN EdgeInsets(-acc[1], -(acc[2] - acc[1]), acc[3], -(acc[4] + acc[3]))

(***************************************************************************)
(* GPOS reader: lookup parsing.                                            *)
(***************************************************************************)
\* the keys of the dispatch table in __make_adjustments_from_subtable
RecognizedValueFormats == {1, 2, 4, 5, 8, 10}

make_adjustment_from_value(format, glyph, value) ==
    CASE format = 1  -> Adjustment(glyph, value.XPlacement, 0, H)
      [] format = 2  -> Adjustment(glyph, value.YPlacement, 0, V)
      [] format = 4  -> Adjustment(glyph, 0, value.XAdvance, H)
      [] format = 5  -> Adjustment(glyph, value.XPlacement, value.XAdvance, H)
      [] format = 8  -> Adjustment(glyph, 0, value.YAdvance, V)
      [] format = 10 -> Adjustment(glyph, value.YPlacement, value.YAdvance, V)

\* A Value is [isList |-> TRUE, items |-> <<...>>] for an array and
\* [isList |-> FALSE, items |-> <<record>>] for one record; iter() raises
\* TypeError exactly on the latter.
ensure_enumerable(obj) == IF obj.isList THEN obj.items ELSE <<obj.items[1]>>

\* a plausible slip: only the equal-length branch, no broadcast
make_adjustments_from_subtable_nobroadcast(subtable) ==
    IF subtable.Format \in {1, 2} /\ subtable.ValueFormat \in RecognizedValueFormats
    THEN LET glyphs == subtable.Coverage
             values == ensure_enumerable(subtable.Value)
         IN IF Len(glyphs) = Len(values)
            THEN [i \in 1..Len(values) |->
                    make_adjustment_from_value(subtable.ValueFormat, glyphs[i], values[i])]
            ELSE <<>>
    ELSE <<>>

make_adjustments_from_subtable(subtable) ==
    IF subtable.Format \in {1, 2} /\ subtable.ValueFormat \in RecognizedValueFormats
    THEN LET glyphs == subtable.Coverage
             values == ensure_enumerable(subtable.Value)
         IN IF Len(glyphs) = Len(values)
            THEN [i \in 1..Len(values) |->
                    make_adjustment_from_value(subtable.ValueFormat, glyphs[i], values[i])]
            ELSE IF Len(values) = 1
            THEN [i \in 1..Len(glyphs) |->
                    make_adjustment_from_value(subtable.ValueFormat, glyphs[i],
                                               values[Len(values)])]
            ELSE <<>>
    ELSE <<>>

\* a plausible slip: the LookupType test dropped
make_adjustments_from_lookup_anytype(lookup) ==
    Flatten([i \in 1..Len(lookup.SubTable) |->
                make_adjustments_from_subtable(lookup.SubTable[i])])

make_adjustments_from_lookup(lookup) ==
    IF lookup.LookupType = 1
    THEN Flatten([i \in 1..Len(lookup.SubTable) |->
                    make_adjustments_from_subtable(lookup.SubTable[i])])
    ELSE <<>>

\* keyed by the lookup's index: dict([[lookup, adjustments] for lookup in Lookup])
make_lookup_adjustments_dict(table) ==
    [i \in 0..(Len(table.Lookup) - 1) |->
        make_adjustments_from_lookup(table.Lookup[i + 1])]

(***************************************************************************)
(* GPOS reader: the derived dictionaries and __setup.                      *)
(***************************************************************************)
EmptyDict == [k \in {} |-> 0]

RecordsWithTag(table, tag) ==
    SelectSeq(table.FeatureRecord, LAMBDA record : record.FeatureTag = tag)

\* a plausible slip: the indices of a tag collected in a list, not a set
make_tag_lookup_dict_list(table) ==
    [tag \in Range(FeatureTags(table)) |->
        LET records == RecordsWithTag(table, tag)
        IN Flatten([k \in 1..Len(records) |-> records[k].LookupListIndex])]

\* d[tag] is the set of indices of all records of the tag, then sorted; the
\* Lookup objects it resolves to are named by these indices
make_tag_lookup_dict(table) ==
    [tag \in Range(FeatureTags(table)) |->
        LET records == RecordsWithTag(table, tag)
        IN sorted(UNION {Range(records[k].LookupListIndex) : k \in 1..Len(records)})]

lookups_from_tag(reader, tag) ==
    IF tag \in DOMAIN reader.tag_lookup_dict THEN reader.tag_lookup_dict[tag] ELSE <<>>

adjustments_from_lookup(reader, lookup) ==
    IF lookup \in DOMAIN reader.lookup_adjustments_dict
    THEN reader.lookup_adjustments_dict[lookup]
    ELSE <<>>

adjustments_from_tag(reader, tag) ==
    LET lookups == lookups_from_tag(reader, tag)
    IN Flatten([k \in 1..Len(lookups) |-> adjustments_from_lookup(reader, lookups[k])])

\* a plausible slip: the group of a glyph restarted by each tag, so that the
\* later tag overrides the earlier one
make_edge_insets_dict_override(reader) ==
    LET wanted == SelectSeq(tags(reader), LAMBDA tag : tag \in {"palt", "vpal"})
        per_tag == [k \in 1..Len(wanted) |-> adjustments_from_tag(reader, wanted[k])]
        all == Flatten(per_tag)
        last(g) == CHOOSE k \in 1..Len(wanted) :
                      /\ \E n \in 1..Len(per_tag[k]) : per_tag[k][n].glyph = g
                      /\ \A m \in (k + 1)..Len(wanted) :
                            \A n \in 1..Len(per_tag[m]) : per_tag[m][n].glyph # g
    IN [g \in {all[k].glyph : k \in 1..Len(all)} |->
            make_edge_insets_from_adjustments(
                SelectSeq(per_tag[last(g)], LAMBDA adjustment : adjustment.glyph = g))]

\* d[glyph] collects the glyph's adjustments in the order they are met over
\* the palt/vpal tags of self.tags, then each list is reduced
make_edge_insets_dict(reader) ==
    LET wanted == SelectSeq(tags(reader), LAMBDA tag : tag \in {"palt", "vpal"})
        all == Flatten([k \in 1..Len(wanted) |-> adjustments_from_tag(reader, wanted[k])])
    IN [g \in {all[k].glyph : k \in 1..Len(all)} |->
            make_edge_insets_from_adjustments(
                SelectSeq(all, LAMBDA adjustment : adjustment.glyph = g))]

make_vmtx_dict(vmtx) ==
    [key \in DOMAIN vmtx |-> VerticalMetrics(vmtx[key][1], vmtx[key][2])]

NewGPOSReader ==
    [tag_list |-> <<>>, tag_lookup_dict |-> EmptyDict,
     lookup_adjustments_dict |-> EmptyDict, edge_insets_dict |-> EmptyDict,
     vmtx_dict |-> EmptyDict]

setup_gpos(f, reader) ==
    IF "GPOS" \in f.tables
    THEN LET table == f.GPOS
             indexed == [reader EXCEPT
                            !.tag_list = make_tag_list(table),
                            !.tag_lookup_dict = make_tag_lookup_dict(table),
                            !.lookup_adjustments_dict = make_lookup_adjustments_dict(table)]
         IN [indexed EXCEPT !.edge_insets_dict = make_edge_insets_dict(indexed)]
    ELSE reader

\* a plausible slip: the vmtx table read only when GPOS is present
setup_vmtx_under_gpos(f) ==
    LET reader == setup_gpos(f, NewGPOSReader)
    IN IF "GPOS" \in f.tables /\ "vmtx" \in f.tables
       THEN [reader EXCEPT !.vmtx_dict = make_vmtx_dict(f.vmtx)]
       ELSE reader

setup(f) ==
    LET reader == setup_gpos(f, NewGPOSReader)
    IN IF "vmtx" \in f.tables
       THEN [reader EXCEPT !.vmtx_dict = make_vmtx_dict(f.vmtx)]
       ELSE reader

edge_insets(reader) == reader.edge_insets_dict

vmtx(reader) == reader.vmtx_dict

(***************************************************************************)
(* Guide-based (UFO) reader.                                               *)
(***************************************************************************)
Last(s) == s[Len(s)]

GuideCoordinates(glyph, angle, axis) ==
    IF glyph.guides = <<>> THEN <<>>       \* userData[...] is None
    ELSE LET guides == glyph.guides[1]
             chosen == SelectSeq(guides, LAMBDA guide : guide.angle = angle)
         IN [k \in 1..Len(chosen) |-> chosen[k][axis]]

Min(S) == CHOOSE x \in S : \A y \in S : x <= y

RECURSIVE sort(_)
\* list.sort()
sort(l) ==
    IF l = <<>> THEN <<>>
    ELSE LET i == index(l, Min(Range(l)))
         IN <<l[i]>> \o sort(SubSeq(l, 1, i - 1) \o SubSeq(l, i + 1, Len(l)))

\* a plausible slip: one guide taken to be enough
guide_insets_single(glyph) ==
    LET ascender == Last(glyph.parent.masters).ascender
        descender == Last(glyph.parent.masters).descender
        horizontals == sort(GuideCoordinates(glyph, 90, "x"))
        verticals == sort(GuideCoordinates(glyph, 0, "y"))
        wide == Len(horizontals) >= 1
        tall == Len(verticals) >= 1
    IN EdgeInsets(IF wide THEN horizontals[1] ELSE 0,
                  IF wide THEN Last(glyph.layers).width - Last(horizontals) ELSE 0,
                  IF tall THEN ascender - Last(verticals) ELSE 0,
                  IF tall THEN -(descender - verticals[1]) ELSE 0)

\* left, right, top, bottom before the all-zero test
guide_insets(glyph) ==
    LET ascender == Last(glyph.parent.masters).ascender
        descender == Last(glyph.parent.masters).descender
        horizontals == sort(GuideCoordinates(glyph, 90, "x"))
        verticals == sort(GuideCoordinates(glyph, 0, "y"))
        wide == Len(horizontals) >= 2
        tall == Len(verticals) >= 2
    IN EdgeInsets(IF wide THEN horizontals[1] ELSE 0,
                  IF wide THEN Last(glyph.layers).width - Last(horizontals) ELSE 0,
                  IF tall THEN ascender - Last(verticals) ELSE 0,
                  IF tall THEN -(descender - verticals[1]) ELSE 0)

IsZero(insets) ==
    insets.left = 0 /\ insets.right = 0 /\ insets.top = 0 /\ insets.bottom = 0

\* a plausible slip: the all-zero test dropped
make_edge_insets_from_glyph_unfiltered(glyph) == <<guide_insets(glyph)>>

\* <<>> stands for None, <<insets>> for an EdgeInsets
make_edge_insets_from_glyph(glyph) ==
    LET insets == guide_insets(glyph)
    IN IF ~IsZero(insets) THEN <<insets>> ELSE <<>>

make_edge_insets_dict_ufo(f) ==
    LET emitted == SelectSeq(f.glyphs,
                             LAMBDA glyph : make_edge_insets_from_glyph(glyph) # <<>>)
    IN [name \in {emitted[k].name : k \in 1..Len(emitted)} |->
            LET k == CHOOSE k \in 1..Len(emitted) :
                        /\ emitted[k].name = name
                        /\ \A j \in (k + 1)..Len(emitted) : emitted[j].name # name
            IN make_edge_insets_from_glyph(emitted[k])[1]]

setup_ufo(f) == [edge_insets_dict |-> make_edge_insets_dict_ufo(f)]

has_metrics_ufo(reader) == Cardinality(DOMAIN reader.edge_insets_dict) > 0

vmtx_ufo(reader) == EmptyDict

(***************************************************************************)
(* Input alphabets.                                                        *)
(***************************************************************************)
Tags == {"kern", "palt", "vpal"}

Glyphs == {"a", "b"}

ValueRecord(xp, yp, xa, ya) ==
    [XPlacement |-> xp, YPlacement |-> yp, XAdvance |-> xa, YAdvance |-> ya]

\* a zero record, the record of the sign-convention examples with advances
\* added, and its negation (so that contributions can cancel)
ValueRecords ==
    {ValueRecord(0, 0, 0, 0), ValueRecord(-10, 5, -20, -30),
     ValueRecord(10, -5, 20, 30)}

SingleValue(r) == [isList |-> FALSE, items |-> <<r>>]

ArrayValue(rs) == [isList |-> TRUE, items |-> rs]

Values(n) ==
    {SingleValue(r) : r \in ValueRecords}
        \cup {ArrayValue(rs) : rs \in SeqsUpTo(ValueRecords, n)}

\* 3 stands for an unsupported subtable Format and for an unrecognized
\* ValueFormat (XPlacement|YPlacement)
SubTables(n) ==
    [Format : {1, 2, 3}, ValueFormat : RecognizedValueFormats \cup {3},
     Coverage : SeqsUpTo(Glyphs, n), Value : Values(n)]

\* the subtables that lookups are built from when a whole table is studied:
\* a recognized or an unrecognized ValueFormat, with one record (broadcast),
\* an array of two (parallel to two glyphs) or of three (never parallel),
\* and one subtable of an unknown Format
LookupSubTables ==
    [Format : {1}, ValueFormat : {1, 3},
     Coverage : {<<"a">>, <<"a", "b">>},
     Value : {SingleValue(ValueRecord(-10, 5, -20, -30)),
              ArrayValue(<<ValueRecord(-10, 5, -20, -30), ValueRecord(10, -5, 20, 30)>>),
              ArrayValue(<<ValueRecord(-10, 5, -20, -30), ValueRecord(10, -5, 20, 30),
                           ValueRecord(0, 0, 0, 0)>>)}]
        \cup {[Format |-> 3, ValueFormat |-> 1, Coverage |-> <<"a">>,
               Value |-> SingleValue(ValueRecord(-10, 5, -20, -30))]}

Lookups(n) == [LookupType : {1, 2}, SubTable : SeqsUpTo(LookupSubTables, n)]

\* the lookup that accompanies the one under study in a LookupList
OtherLookups ==
    [LookupType : {1, 2},
     SubTable : {<<[Format |-> 1, ValueFormat |-> 10, Coverage |-> <<"b">>,
                    Value |-> SingleValue(ValueRecord(10, -5, 20, 30))]>>}]

LookupTables(n) ==
    {[Lookup |-> <<x, y>>] : x \in Lookups(n), y \in OtherLookups}
        \cup {[Lookup |-> <<y, x>>] : x \in Lookups(n), y \in OtherLookups}

AdjustmentValues == {-10, 0, 5}

Adjustments ==
    [glyph : {"a"}, placement : AdjustmentValues, advance : AdjustmentValues,
     direction : {H, V}]

TagTables(n) ==
    {[FeatureRecord |-> rs] :
        rs \in SeqsUpTo([FeatureTag : Tags, LookupListIndex : {<<>>}], n)}

(***************************************************************************)
(* Helpers studied on their own: the argument is drawn at the start, the   *)
(* one step is the call.                                                   *)
(***************************************************************************)
Idle ==
    /\ font = <<>>
    /\ self = <<>>
    /\ layers = <<>>
    /\ cursor = 0

InitCall(S) ==
    /\ pc = "call"
    /\ arg \in S
    /\ ret = <<>>
    /\ Idle

Return(value) ==
    /\ pc = "call"
    /\ pc' = "return"
    /\ ret' = value
    /\ UNCHANGED <<font, self, arg, layers, cursor>>

InitTags == InitCall(TagTables(MaxTags))

CallTags == Return(tags([tag_list |-> make_tag_list(arg)]))

SpecTags == InitTags /\ [][CallTags]_vars

InitReduce == InitCall(SeqsUpTo(Adjustments, MaxAdj))

CallReduce == Return(make_edge_insets_from_adjustments(arg))

SpecReduce == InitReduce /\ [][CallReduce]_vars

InitSubtable == InitCall(SubTables(MaxCov))

CallSubtable == Return(make_adjustments_from_subtable(arg))

SpecSubtable == InitSubtable /\ [][CallSubtable]_vars

InitLookup == InitCall(LookupTables(MaxSubTables))

CallLookup == Return(make_lookup_adjustments_dict(arg))

SpecLookup == InitLookup /\ [][CallLookup]_vars

(***************************************************************************)
(* Fonts handed to the readers.                                            *)
(***************************************************************************)

\* one single-positioning subtable each: horizontal (XPlacement+XAdvance) or
\* vertical (YPlacement+YAdvance), over one or both glyphs, with a record
\* or its negation
ReaderLookups ==
    {[LookupType |-> 1,
      SubTable |-> <<[Format |-> 1, ValueFormat |-> vf, Coverage |-> cov,
                      Value |-> SingleValue(r)]>>] :
        vf \in {5, 10}, cov \in {<<"a">>, <<"a", "b">>},
        r \in {ValueRecord(-10, 5, -20, -30), ValueRecord(10, -5, 20, 30)}}

ReaderRecords == [FeatureTag : Tags, LookupListIndex : {<<0>>, <<1, 0, 1>>}]

GPOSTable(records, lookups) == [FeatureRecord |-> records, Lookup |-> lookups]

NoTable == GPOSTable(<<>>, <<>>)

\* vmtx.metrics: glyph name -> (advance height, top side bearing)
VmtxTables == {[g \in S |-> IF g = "a" THEN <<1000, 880>> ELSE <<900, 780>>] : S \in {{"a"}, {"a", "b"}}}

TTFont(tables, gpos, metrics) ==
    [kind |-> "otf", tables |-> tables, GPOS |-> gpos, vmtx |-> metrics]

\* a font with a GPOS table of up to MaxRecords FeatureRecords over two
\* lookups, with or without vmtx
IsTTFontWithGPOS(f) ==
    \E rs \in SeqsUpTo(ReaderRecords, MaxRecords) :
        \E x \in ReaderLookups :
            \E y \in ReaderLookups :
                \/ f = TTFont({"GPOS"}, GPOSTable(rs, <<x, y>>), EmptyDict)
                \/ \E v \in VmtxTables :
                        f = TTFont({"GPOS", "vmtx"}, GPOSTable(rs, <<x, y>>), v)

IsTTFontWithoutGPOS(f) ==
    \/ f = TTFont({}, NoTable, EmptyDict)
    \/ \E v \in VmtxTables : f = TTFont({"vmtx"}, NoTable, v)

\* a guide of angle 90 carries its x, one of angle 0 its y; 7 is the
\* coordinate that is not read, 45 an angle that is neither
GuideCoords == {0, 10, 490}

Guides ==
    {[angle |-> 90, x |-> c, y |-> 7] : c \in GuideCoords}
        \cup {[angle |-> 0, x |-> 7, y |-> c] : c \in GuideCoords}
        \cup {[angle |-> 45, x |-> 10, y |-> 10]}

GuideLists(n) == {<<>>} \cup {<<gs>> : gs \in SeqsUpTo(Guides, n)}

Masters == {[ascender |-> 880, descender |-> -120], [ascender |-> 490, descender |-> 0]}

MasterLists == {<<m>> : m \in Masters} \cup {<<m, n>> : m, n \in Masters}

Widths == {490, 500}

GuideGlyphs(names, n) ==
    [name : names, guides : GuideLists(n), layers : {<<[width |-> w]>> : w \in Widths},
     parent : {[masters |-> ms] : ms \in MasterLists}]

UFOFont(glyphs) == [kind |-> "ufo", masters |-> glyphs[1].parent.masters, glyphs |-> glyphs]

\* a first glyph with up to MaxFontGuides guides, alone or followed by a
\* second glyph whose guides yield an inset or none
IsUFOFont(f) ==
    \E g \in GuideGlyphs({"a"}, MaxFontGuides) :
        \/ f = UFOFont(<<g>>)
        \/ \E gs \in {<<>>, <<<<[angle |-> 90, x |-> 10, y |-> 7],
                                [angle |-> 90, x |-> 490, y |-> 7]>>>>} :
                f = UFOFont(<<g, [name |-> "b", guides |-> gs,
                                  layers |-> <<[width |-> 500]>>, parent |-> g.parent]>>)

(***************************************************************************)
(* The readers' construction.                                              *)
(***************************************************************************)
InitReaders ==
    /\ pc = "new"
    /\ \/ IsTTFontWithGPOS(font)
       \/ IsTTFontWithoutGPOS(font)
       \/ IsUFOFont(font)
    /\ self = <<>>
    /\ arg = <<>>
    /\ ret = <<>>
    /\ layers = <<>>
    /\ cursor = 0

\* CJKAlternateMetricsGPOSReader(font)
ConstructGPOSReader ==
    /\ pc = "new"
    /\ font.kind = "otf"
    /\ self' = setup(font)
    /\ pc' = "ready"
    /\ UNCHANGED <<font, arg, ret, layers, cursor>>

\* CJKAlternateMetricsUFOReader(font)
ConstructUFOReader ==
    /\ pc = "new"
    /\ font.kind = "ufo"
    /\ self' = setup_ufo(font)
    /\ pc' = "ready"
    /\ UNCHANGED <<font, arg, ret, layers, cursor>>

Next ==
    \/ ConstructGPOSReader
    \/ ConstructUFOReader

Spec == InitReaders /\ [][Next]_vars

InitGuide == InitCall(GuideGlyphs({"a"}, MaxGuides))

CallGuide == Return(make_edge_insets_from_glyph(arg))

SpecGuide == InitGuide /\ [][CallGuide]_vars

(***************************************************************************)
(* The anchor import (CJKAnchorImportPlugin.__import_anchors).             *)
(* Coordinates are kept in half units so that width / 2.0 and the rounded  *)
(* centres stay integers: a position is <<2 * x, 2 * y>>.                  *)
(***************************************************************************)
NEEDS_APPLY_VMTX_VALUES_ON_IMPORT == TRUE

SideBearingAnchors == {"LSB", "RSB", "TSB", "BSB"}

\* round() of Python 2 on a value given in half units: halves go away from
\* zero; the result is in whole units
round_half(h) ==
    IF h % 2 = 0 THEN h \div 2
    ELSE IF h > 0 THEN (h + 1) \div 2 ELSE (h - 1) \div 2

\* dict.get(key): <<>> stands for None
get(d, key) == IF key \in DOMAIN d THEN <<d[key]>> ELSE <<>>

Digits == <<"0", "1", "2", "3", "4", "5", "6", "7", "8", "9">>

\* 'cid{0:05d}'.format(n), for the CIDs below 100 that the model uses
cid_name(n) == "cid000" \o Digits[(n \div 10) + 1] \o Digits[(n % 10) + 1]

\* the map file as a list of split lines c, c[1] the CID and c[2] the glyph
\* name; <<>> stands for None (no ROS, or no map file), <<dict>> for a dict
make_cid_rename_dict(f) ==
    IF f.mapfile = <<>> THEN <<>>
    ELSE LET lines == f.mapfile[1]
         IN <<[name \in {lines[k][2] : k \in 1..Len(lines)} |->
                LET k == CHOOSE k \in 1..Len(lines) :
                            /\ lines[k][2] = name
                            /\ \A j \in (k + 1)..Len(lines) : lines[j][2] # name
                IN cid_name(lines[k][1])]>>

\* reader.has_metrics, reader.edge_insets and reader.vmtx of either reader
reader_has_metrics(reader) ==
    IF reader.kind = "ufo" THEN has_metrics_ufo(reader) ELSE has_metrics(reader)

reader_vmtx(reader) == IF reader.kind = "ufo" THEN vmtx_ufo(reader) ELSE vmtx(reader)

\* lookup by glyph name, then by the CID-renamed name
lookup_renamed(d, cid_rename_dict, name) ==
    LET direct == get(d, name)
    IN IF direct = <<>> /\ cid_rename_dict # <<>>
          /\ DOMAIN cid_rename_dict[1] # {} /\ name \in DOMAIN cid_rename_dict[1]
       THEN get(d, cid_rename_dict[1][name])
       ELSE direct

\* a plausible slip: only the horizontal anchors removed
clear_anchors_horizontal(layer, names) ==
    [layer EXCEPT !.anchors =
        [n \in DOMAIN layer.anchors \ (names \cap {"LSB", "RSB"}) |-> layer.anchors[n]]]

clear_anchors(layer, names) ==
    [layer EXCEPT !.anchors = [n \in DOMAIN layer.anchors \ names |-> layer.anchors[n]]]

\* the anchors of a layer are kept by name; their order in the list is not
upsert_anchor(layer, name, position) ==
    [layer EXCEPT !.anchors =
        [n \in DOMAIN layer.anchors \cup {name} |->
            IF n = name THEN position ELSE layer.anchors[n]]]

\* the body of the loop over glyphs and masters, for one layer
import_layer(reader, f, cid_rename_dict, name, master, layer) ==
    LET vertical_metrics == lookup_renamed(reader_vmtx(reader), cid_rename_dict, name)
        layer_tsb == IF layer.bounds_empty THEN 2 * master.ascender ELSE layer.TSB
        offset_y == IF vertical_metrics # <<>>
                    THEN vertical_metrics[1].TSB - round_half(layer_tsb)
                    ELSE 0
        measured ==
            IF /\ vertical_metrics # <<>>
               /\ NEEDS_APPLY_VMTX_VALUES_ON_IMPORT
               /\ (offset_y # 0 \/ vertical_metrics[1].height # f.upm)
            THEN [layer EXCEPT !.vertOrigin = <<offset_y>>,
                               !.vertWidth = <<vertical_metrics[1].height>>]
            ELSE layer
        found == lookup_renamed(reader.edge_insets_dict, cid_rename_dict, name)
    IN IF found # <<>>
       THEN LET insets == found[1]
                wide == insets.left # 0 \/ insets.right # 0
                tall == insets.top # 0 \/ insets.bottom # 0
                x1 == insets.left
                x2 == layer.width - insets.right
                y1 == f.upm - insets.top + master.descender + offset_y
                y2 == insets.bottom + master.descender + offset_y
                cx0 == layer.width                     \* 2 * (width / 2.0)
                cy0 == f.upm + 2 * master.descender    \* 2 * (upm / 2.0 + descender)
                cx == IF wide THEN 2 * round_half(x1 + x2) ELSE cx0
                cy == IF tall THEN 2 * round_half(y1 + y2) ELSE cy0
                cleared == clear_anchors(measured, SideBearingAnchors)
                sided == IF wide
                         THEN upsert_anchor(upsert_anchor(cleared, "LSB", <<2 * x1, cy0>>),
                                            "RSB", <<2 * x2, cy0>>)
                         ELSE cleared
                topped == IF tall
                          THEN upsert_anchor(upsert_anchor(sided, "TSB", <<cx, 2 * y1>>),
                                             "BSB", <<cx, 2 * y2>>)
                          ELSE sided
            IN IF wide /\ tall
               THEN [topped EXCEPT
                        !.anchors["LSB"] = <<@[1], cy>>,
                        !.anchors["RSB"] = <<@[1], cy>>,
                        !.anchors["TSB"] = <<cx, @[2]>>,
                        !.anchors["BSB"] = <<cx, @[2]>>]
               ELSE topped
       ELSE clear_anchors(measured, SideBearingAnchors)

(***************************************************************************)
(* Documents handed to the import: a reader as one of the two constructors *)
(* leaves it, a font of two glyphs and two masters, and its layers.        *)
(***************************************************************************)
ImportInsets ==
    {EdgeInsets(0, 0, 0, 0), EdgeInsets(10, -10, 0, 0), EdgeInsets(0, 0, 5, -5),
     EdgeInsets(10, 25, 5, 30)}

\* fonts name the glyph "a" by its name and the glyph "b" by its CID
ImportInsetDicts ==
    {EmptyDict}
        \cup {[g \in {"a"} |-> e] : e \in ImportInsets}
        \cup {[g \in {"cid00002"} |-> e] : e \in ImportInsets}
        \cup {[g \in {"a", "cid00002"} |-> IF g = "a" THEN e ELSE EdgeInsets(10, 25, 5, 30)] :
                e \in ImportInsets}

ImportVmtxDicts ==
    {EmptyDict,
     [g \in {"a", "cid00002"} |->
        IF g = "a" THEN VerticalMetrics(1000, 880) ELSE VerticalMetrics(900, 780)]}

ImportReaders ==
    {[kind |-> "otf", tag_list |-> <<t>>, edge_insets_dict |-> d, vmtx_dict |-> v] :
        t \in {"palt", "vpal"}, d \in ImportInsetDicts, v \in ImportVmtxDicts}
    \cup {[kind |-> "otf", tag_list |-> t, edge_insets_dict |-> EmptyDict, vmtx_dict |-> v] :
        t \in {<<>>, <<"kern">>}, v \in ImportVmtxDicts}
    \cup {[kind |-> "ufo", edge_insets_dict |-> d] :
        d \in {EmptyDict} \cup {[g \in {"a"} |-> e] : e \in ImportInsets \ {EdgeInsets(0, 0, 0, 0)}}}

ImportFonts ==
    [upm : {1000},
     glyphs : {<<"a", "b">>},
     masters : {<<[id |-> "m1", ascender |-> 880, descender |-> -120],
                  [id |-> "m2", ascender |-> 900, descender |-> -100]>>},
     mapfile : {<<>>, <<<<>>>>, <<<< <<2, "b">> >>>>}]

InitialAnchors ==
    {EmptyDict,
     [n \in {"top"} \cup SideBearingAnchors |-> <<0, 0>>],
     [n \in {"top", "LSB", "BSB"} |-> <<0, 0>>]}

Layer(anchors, width, tsb, empty) ==
    [anchors |-> anchors, width |-> width, TSB |-> tsb, bounds_empty |-> empty,
     vertOrigin |-> <<>>, vertWidth |-> <<>>]

\* the layers of glyph "a" are 501 wide with outlines and a top side bearing
\* of 100.5 (TSB is kept in half units), those of "b" are 1000 wide and empty
ImportLayers ==
    {[key \in {"a", "b"} \X {"m1", "m2"} |->
        IF key[1] = "a" THEN Layer(anchors[key], 501, 201, FALSE)
        ELSE Layer(anchors[key], 1000, 0, TRUE)] :
        anchors \in [{"a", "b"} \X {"m1", "m2"} -> InitialAnchors]}

\* arg holds the layers as they were before the import
InitImport ==
    /\ pc = "import"
    /\ font \in ImportFonts
    /\ self \in {<<>>} \cup {<<r>> : r \in ImportReaders}
    /\ layers \in ImportLayers
    /\ arg = layers
    /\ ret = <<>>
    /\ cursor = 0

\* reader and reader.has_metrics: the loop is entered
ImportBegin ==
    /\ pc = "import"
    /\ self # <<>>
    /\ reader_has_metrics(self[1])
    /\ pc' = "loop"
    /\ ret' = make_cid_rename_dict(font)
    /\ UNCHANGED <<font, self, arg, layers, cursor>>

\* no reader, or a reader without metrics: nothing is touched
ImportSkip ==
    /\ pc = "import"
    /\ ~(self # <<>> /\ reader_has_metrics(self[1]))
    /\ pc' = "done"
    /\ UNCHANGED <<font, self, arg, ret, layers, cursor>>

\* one iteration: glyphs outside, masters inside
ImportLayer ==
    /\ pc = "loop"
    /\ cursor < Len(font.glyphs) * Len(font.masters)
    /\ LET name == font.glyphs[(cursor \div Len(font.masters)) + 1]
           master == font.masters[(cursor % Len(font.masters)) + 1]
           key == <<name, master.id>>
       IN layers' = [layers EXCEPT
                        ![key] = import_layer(self[1], font, ret, name, master, layers[key])]
    /\ cursor' = cursor + 1
    /\ UNCHANGED <<pc, font, self, arg, ret>>

ImportEnd ==
    /\ pc = "loop"
    /\ cursor = Len(font.glyphs) * Len(font.masters)
    /\ pc' = "done"
    /\ UNCHANGED <<font, self, arg, ret, layers, cursor>>

NextImport ==
    \/ ImportBegin
    \/ ImportSkip
    \/ ImportLayer
    \/ ImportEnd

SpecImport == InitImport /\ [][NextImport]_vars

(***************************************************************************)
(* Properties of the helpers.                                              *)
(***************************************************************************)
RECURSIVE SumField(_, _, _)
\* the sum of field f over the adjustments of direction d
SumField(adjs, d, f) ==
    IF adjs = <<>> THEN 0
    ELSE (IF Head(adjs).direction = d THEN Head(adjs)[f] ELSE 0)
            + SumField(Tail(adjs), d, f)

\* the EdgeInsets the reduction rule prescribes for a list of adjustments
ReducedInsets(adjs) ==
    LET px == SumField(adjs, H, "placement")
        ax == SumField(adjs, H, "advance")
        py == SumField(adjs, V, "placement")
        ay == SumField(adjs, V, "advance")
    IN [left |-> -px, right |-> -(ax - px), top |-> py, bottom |-> -(ay + py)]

\* C1: the EdgeInsets reduced from a glyph's adjustments is
\* (left, right, top, bottom) = (-px, -(ax - px), py, -(ay + py)) with px/ax
\* the sums of placement/advance over the Horizontal adjustments and py/ay
\* over the Vertical ones; a single Horizontal placement of -10 gives
\* left = 10, right = -10 and a single Vertical placement of 5 gives top = 5,
\* bottom = -5.
C1_Reduction ==
    pc = "return" =>
        /\ ret = ReducedInsets(arg)
        /\ arg = <<Adjustment("a", -10, 0, H)>> => ret.left = 10 /\ ret.right = -10
        /\ arg = <<Adjustment("a", 5, 0, V)>> => ret.top = 5 /\ ret.bottom = -5

C1_Witness ==
    /\ pc = "return"
    /\ Len(arg) = MaxAdj
    /\ \E i, j \in 1..Len(arg) :
            /\ arg[i].direction = H /\ arg[i].placement # 0 /\ arg[i].advance # 0
            /\ arg[j].direction = V /\ arg[j].placement # 0 /\ arg[j].advance # 0
    /\ ret.left # 0 /\ ret.right # 0 /\ ret.top # 0 /\ ret.bottom # 0

\* position of the first record carrying tag t
FirstOccurrence(records, t) ==
    CHOOSE i \in 1..Len(records) :
        /\ records[i].FeatureTag = t
        /\ \A j \in 1..Len(records) : records[j].FeatureTag = t => i <= j

\* C3: tags() returns each distinct FeatureTag exactly once, in the order of
\* the first occurrences among the FeatureRecords; [kern, palt, kern, vpal]
\* gives (kern, palt, vpal).
C3_TagsFirstOccurrence ==
    pc = "return" =>
        LET records == arg.FeatureRecord
        IN /\ Range(ret) = {records[i].FeatureTag : i \in 1..Len(records)}
           /\ \A i, j \in 1..Len(ret) :
                i < j => /\ ret[i] # ret[j]
                         /\ FirstOccurrence(records, ret[i])
                                < FirstOccurrence(records, ret[j])
           /\ (Len(records) = 4
                 /\ records[1].FeatureTag = "kern" /\ records[2].FeatureTag = "palt"
                 /\ records[3].FeatureTag = "kern" /\ records[4].FeatureTag = "vpal")
                => ret = <<"kern", "palt", "vpal">>

C3_Witness ==
    /\ pc = "return"
    /\ Len(arg.FeatureRecord) = 4
    /\ arg.FeatureRecord[1].FeatureTag = "kern"
    /\ arg.FeatureRecord[2].FeatureTag = "palt"
    /\ arg.FeatureRecord[3].FeatureTag = "kern"
    /\ arg.FeatureRecord[4].FeatureTag = "vpal"
    /\ ret = <<"kern", "palt", "vpal">>

\* what a value record means under a recognized ValueFormat
PlacementOf(vf, r) ==
    IF vf \in {1, 5} THEN r.XPlacement ELSE IF vf \in {2, 10} THEN r.YPlacement ELSE 0

AdvanceOf(vf, r) ==
    IF vf \in {4, 5} THEN r.XAdvance ELSE IF vf \in {8, 10} THEN r.YAdvance ELSE 0

DirectionOf(vf) == IF vf \in {1, 4, 5} THEN H ELSE V

Pairs(glyph, vf, r, adj) ==
    /\ adj.glyph = glyph
    /\ adj.placement = PlacementOf(vf, r)
    /\ adj.advance = AdvanceOf(vf, r)
    /\ adj.direction = DirectionOf(vf)

Decodable(st) == st.Format \in {1, 2} /\ st.ValueFormat \in {1, 2, 4, 5, 8, 10}

\* C4: for a Format 1 or 2 subtable with a recognized ValueFormat, a single
\* (non-array) Value record yields exactly one Adjustment per Coverage glyph,
\* in Coverage order, all taken from that record; a Value array as long as
\* Coverage pairs the i-th glyph with the i-th value.
C4_Broadcast ==
    (pc = "return" /\ Decodable(arg)) =>
        /\ ~arg.Value.isList =>
            /\ Len(ret) = Len(arg.Coverage)
            /\ \A i \in 1..Len(ret) :
                    Pairs(arg.Coverage[i], arg.ValueFormat, arg.Value.items[1], ret[i])
        /\ (arg.Value.isList /\ Len(arg.Value.items) = Len(arg.Coverage)) =>
            /\ Len(ret) = Len(arg.Coverage)
            /\ \A i \in 1..Len(ret) :
                    Pairs(arg.Coverage[i], arg.ValueFormat, arg.Value.items[i], ret[i])

C4_Witness ==
    /\ pc = "return"
    /\ Decodable(arg)
    /\ ~arg.Value.isList
    /\ Len(arg.Coverage) = MaxCov
    /\ Len(ret) = MaxCov
    /\ \A i \in 1..Len(ret) : ret[i].placement # 0 /\ ret[i] = [ret[1] EXCEPT !.glyph = arg.Coverage[i]]

\* a subtable the reader does not understand: unrecognized ValueFormat, or
\* Coverage and Value lengths that differ with more than one value
Unsupported(st) ==
    \/ st.ValueFormat \notin {1, 2, 4, 5, 8, 10}
    \/ /\ st.Value.isList
       /\ Len(st.Value.items) > 1
       /\ Len(st.Value.items) # Len(st.Coverage)

RECURSIVE SupportedOnly(_)
\* the adjustments of the subtables of a list that are not Unsupported
SupportedOnly(sts) ==
    IF sts = <<>> THEN <<>>
    ELSE (IF Unsupported(Head(sts)) THEN <<>>
          ELSE make_adjustments_from_subtable(Head(sts)))
            \o SupportedOnly(Tail(sts))

\* C5: a lookup whose LookupType is not 1 contributes no adjustments, an
\* unsupported subtable contributes none, and every other lookup and
\* subtable of the table is still decoded (the table is decoded in full).
C5_UnsupportedSkipped ==
    pc = "return" =>
        /\ DOMAIN ret = 0..(Len(arg.Lookup) - 1)
        /\ \A i \in DOMAIN ret :
            LET lookup == arg.Lookup[i + 1]
            IN /\ lookup.LookupType # 1 => ret[i] = <<>>
               /\ lookup.LookupType = 1 => ret[i] = SupportedOnly(lookup.SubTable)

C5_Witness ==
    /\ pc = "return"
    /\ arg.Lookup[1].LookupType # 1
    /\ arg.Lookup[1].SubTable # <<>>
    /\ ret[0] = <<>>
    /\ arg.Lookup[2].LookupType = 1
    /\ Len(arg.Lookup[2].SubTable) = MaxSubTables
    /\ Unsupported(arg.Lookup[2].SubTable[1])
    /\ ~Unsupported(arg.Lookup[2].SubTable[MaxSubTables])
    /\ ret[1] # <<>>

(***************************************************************************)
(* Properties of the readers.                                              *)
(***************************************************************************)
Built == pc = "ready" /\ font.kind = "otf"

\* the lookups some FeatureRecord of the tag references
TaggedLookups(table, tag) ==
    {i \in 0..(Len(table.Lookup) - 1) :
        \E k \in 1..Len(table.FeatureRecord) :
            /\ table.FeatureRecord[k].FeatureTag = tag
            /\ i \in Range(table.FeatureRecord[k].LookupListIndex)}

RECURSIVE SumOverLookups(_, _, _, _, _)
\* the sum of field f over the adjustments of direction d for glyph g in
\* the lookups of S, each lookup counted once
SumOverLookups(dict, S, g, d, f) ==
    IF S = {} THEN 0
    ELSE LET i == CHOOSE i \in S : TRUE
         IN SumField(SelectSeq(dict[i], LAMBDA adj : adj.glyph = g), d, f)
                + SumOverLookups(dict, S \ {i}, g, d, f)

GroupSum(g, d, f) ==
    SumOverLookups(self.lookup_adjustments_dict, TaggedLookups(font.GPOS, "palt"), g, d, f)
        + SumOverLookups(self.lookup_adjustments_dict, TaggedLookups(font.GPOS, "vpal"), g, d, f)

\* glyph g has an adjustment in a lookup of palt or of vpal
Touched(g) ==
    \E tag \in {"palt", "vpal"} : \E i \in TaggedLookups(font.GPOS, tag) :
        \E n \in 1..Len(self.lookup_adjustments_dict[i]) :
            self.lookup_adjustments_dict[i][n].glyph = g

\* C2: each tag's lookups are the deduplicated, ascending-index union of the
\* LookupListIndex values of the FeatureRecords carrying it, and the
\* EdgeInsets of a glyph reduces the glyph's adjustments from the lookups of
\* palt together with those from the lookups of vpal: a lookup referenced by
\* several records of a tag counts once for that tag, and the two tags'
\* contributions are summed.
C2_TagsSummed ==
    (Built /\ "GPOS" \in font.tables) =>
        /\ \A tag \in DOMAIN self.tag_lookup_dict :
            LET lookups == self.tag_lookup_dict[tag]
            IN /\ Range(lookups) = TaggedLookups(font.GPOS, tag)
               /\ \A m, n \in 1..Len(lookups) : m < n => lookups[m] < lookups[n]
        /\ DOMAIN self.edge_insets_dict = {g \in Glyphs : Touched(g)}
        /\ \A g \in DOMAIN self.edge_insets_dict :
            LET px == GroupSum(g, H, "placement")
                ax == GroupSum(g, H, "advance")
                py == GroupSum(g, V, "placement")
                ay == GroupSum(g, V, "advance")
            IN self.edge_insets_dict[g]
                = [left |-> -px, right |-> -(ax - px), top |-> py, bottom |-> -(ay + py)]

C2_Witness ==
    /\ Built
    /\ \E j, k \in 1..Len(font.GPOS.FeatureRecord) :
            /\ j < k
            /\ font.GPOS.FeatureRecord[j].FeatureTag = "palt"
            /\ font.GPOS.FeatureRecord[k].FeatureTag = "palt"
            /\ Range(font.GPOS.FeatureRecord[j].LookupListIndex)
                    \cap Range(font.GPOS.FeatureRecord[k].LookupListIndex) # {}
    /\ TaggedLookups(font.GPOS, "vpal") # {}
    /\ "a" \in DOMAIN self.edge_insets_dict
    /\ GroupSum("a", H, "placement") # 0
    /\ GroupSum("a", V, "placement") # 0
    /\ self.edge_insets_dict["a"].left # 0
    /\ self.edge_insets_dict["a"].top # 0

AllZero(e) == e.left = 0 /\ e.right = 0 /\ e.top = 0 /\ e.bottom = 0

\* C6 as stated: no entry of the edge_insets mapping of either reader is
\* all-zero.
C6_NoAllZeroEntry ==
    pc = "ready" => \A g \in DOMAIN self.edge_insets_dict : ~AllZero(self.edge_insets_dict[g])

\* C6, amended: no entry of the guide-based reader is all-zero; every entry
\* of the GPOS reader belongs to a glyph with at least one aggregated
\* adjustment (its values may all be zero).
C6_Amended ==
    pc = "ready" =>
        /\ font.kind = "ufo" =>
            \A g \in DOMAIN self.edge_insets_dict : ~AllZero(self.edge_insets_dict[g])
        /\ font.kind = "otf" => \A g \in DOMAIN self.edge_insets_dict : Touched(g)

C6_Witness ==
    /\ pc = "ready"
    /\ font.kind = "ufo"
    /\ Len(font.glyphs) = 2
    /\ font.glyphs[1].guides # <<>>
    /\ Len(font.glyphs[1].guides[1]) = 2
    /\ \A k \in 1..2 : font.glyphs[1].guides[1][k].angle = 90
    /\ DOMAIN self.edge_insets_dict = {"b"}

\* C7 as stated: without a GPOS table, with or without vmtx, both mappings
\* of the GPOS reader are empty.
C7_NoGPOSAllEmpty ==
    (Built /\ "GPOS" \notin font.tables) =>
        /\ DOMAIN edge_insets(self) = {}
        /\ DOMAIN vmtx(self) = {}

\* C7, amended: without a GPOS table the edge_insets mapping is empty; the
\* vertical_metrics mapping is empty when the font has no vmtx table and
\* otherwise holds one entry per record of the vmtx table.
C7_Amended ==
    (Built /\ "GPOS" \notin font.tables) =>
        /\ DOMAIN edge_insets(self) = {}
        /\ "vmtx" \notin font.tables => DOMAIN vmtx(self) = {}
        /\ "vmtx" \in font.tables =>
            /\ DOMAIN vmtx(self) = DOMAIN font.vmtx
            /\ \A g \in DOMAIN font.vmtx :
                    /\ vmtx(self)[g].height = font.vmtx[g][1]
                    /\ vmtx(self)[g].TSB = font.vmtx[g][2]

C7_Witness ==
    /\ Built
    /\ font.tables = {"vmtx"}
    /\ DOMAIN edge_insets(self) = {}
    /\ DOMAIN vmtx(self) = {"a", "b"}

\* C8: has_metrics is true iff palt or vpal is among tags(); so it is false
\* without a GPOS table and false when the FeatureList carries neither tag,
\* whatever the lookups and the vmtx table hold.
C8_HasMetrics ==
    Built =>
        /\ has_metrics(self) <=>
                \E i \in 1..Len(tags(self)) : tags(self)[i] \in {"palt", "vpal"}
        /\ has_metrics(self) <=>
                /\ "GPOS" \in font.tables
                /\ \E k \in 1..Len(font.GPOS.FeatureRecord) :
                        font.GPOS.FeatureRecord[k].FeatureTag \in {"palt", "vpal"}

C8_Witness ==
    /\ Built
    /\ font.tables = {"GPOS", "vmtx"}
    /\ Len(font.GPOS.FeatureRecord) = MaxRecords
    /\ \A k \in 1..Len(font.GPOS.FeatureRecord) : font.GPOS.FeatureRecord[k].FeatureTag = "kern"
    /\ tags(self) = <<"kern">>
    /\ ~has_metrics(self)

Largest(S) == CHOOSE x \in S : \A y \in S : y <= x

Smallest(S) == CHOOSE x \in S : \A y \in S : x <= y

\* the guides of the glyph with the given angle (positions in the list)
GuidesAt(glyph, angle) ==
    IF glyph.guides = <<>> THEN {}
    ELSE {k \in 1..Len(glyph.guides[1]) : glyph.guides[1][k].angle = angle}

\* the insets C9 prescribes
GuideRule(glyph) ==
    LET hs == GuidesAt(glyph, 90)
        vs == GuidesAt(glyph, 0)
        xs == {glyph.guides[1][k].x : k \in hs}
        ys == {glyph.guides[1][k].y : k \in vs}
        master == glyph.parent.masters[Len(glyph.parent.masters)]
        width == glyph.layers[Len(glyph.layers)].width
    IN [left |-> IF Cardinality(hs) >= 2 THEN Smallest(xs) ELSE 0,
        right |-> IF Cardinality(hs) >= 2 THEN width - Largest(xs) ELSE 0,
        top |-> IF Cardinality(vs) >= 2 THEN master.ascender - Largest(ys) ELSE 0,
        bottom |-> IF Cardinality(vs) >= 2 THEN -(master.descender - Smallest(ys)) ELSE 0]

\* C9: with at least two guides of angle 90, left is the smallest guide x
\* and right the width minus the largest, otherwise both are 0; with at
\* least two guides of angle 0, top is the ascender minus the largest guide
\* y and bottom -(descender - smallest guide y), otherwise both are 0 (no
\* EdgeInsets at all stands for four zeros).  Guides at x = 10 and x = 490
\* on width 500 give left = right = 10.
C9_GuideInsets ==
    pc = "return" =>
        /\ ret # <<>> => ret[1] = GuideRule(arg)
        /\ ret = <<>> => AllZero(GuideRule(arg))
        /\ (arg.guides = <<<<[angle |-> 90, x |-> 10, y |-> 7],
                            [angle |-> 90, x |-> 490, y |-> 7]>>>>
              /\ arg.layers[1].width = 500)
            => ret[1].left = 10 /\ ret[1].right = 10
        /\ Cardinality(GuidesAt(arg, 90)) = 1 =>
                \/ ret = <<>>
                \/ ret[1].left = 0 /\ ret[1].right = 0

C9_Witness ==
    /\ pc = "return"
    /\ Cardinality(GuidesAt(arg, 90)) = 2
    /\ Cardinality(GuidesAt(arg, 0)) = 2
    /\ Len(arg.parent.masters) = 2
    /\ arg.parent.masters[1] # arg.parent.masters[2]
    /\ ret # <<>>
    /\ ret[1].left = 10 /\ ret[1].right = 10
    /\ ret[1].top # 0 /\ ret[1].bottom # 0

(***************************************************************************)
(* Properties of the anchor import.                                        *)
(***************************************************************************)
\* the EdgeInsets found for a glyph: by its name, or by its CID-renamed
\* name when the name lookup misses (<<>> when none is found)
FoundInsets(name) ==
    LET d == self[1].edge_insets_dict
    IN IF name \in DOMAIN d THEN <<d[name]>>
       ELSE IF ret # <<>> /\ name \in DOMAIN ret[1] /\ ret[1][name] \in DOMAIN d
       THEN <<d[ret[1][name]]>>
       ELSE <<>>

HasAnchor(key, n) == n \in DOMAIN layers[key].anchors

\* C10: after the import has run with a reader whose has_metrics is true,
\* whatever anchors a layer had before: with no EdgeInsets found for its
\* glyph the layer has none of LSB, RSB, TSB, BSB; otherwise it has both LSB
\* and RSB exactly when left or right is non-zero and neither otherwise, and
\* both TSB and BSB exactly when top or bottom is non-zero and neither
\* otherwise.
C10_AnchorsAfterImport ==
    (pc = "done" /\ self # <<>> /\ reader_has_metrics(self[1])) =>
        \A key \in DOMAIN layers :
            LET found == FoundInsets(key[1])
            IN /\ found = <<>> => \A n \in SideBearingAnchors : ~HasAnchor(key, n)
               /\ found # <<>> =>
                    /\ IF found[1].left # 0 \/ found[1].right # 0
                       THEN HasAnchor(key, "LSB") /\ HasAnchor(key, "RSB")
                       ELSE ~HasAnchor(key, "LSB") /\ ~HasAnchor(key, "RSB")
                    /\ IF found[1].top # 0 \/ found[1].bottom # 0
                       THEN HasAnchor(key, "TSB") /\ HasAnchor(key, "BSB")
                       ELSE ~HasAnchor(key, "TSB") /\ ~HasAnchor(key, "BSB")

C10_Witness ==
    /\ pc = "done"
    /\ self # <<>>
    /\ reader_has_metrics(self[1])
    /\ DOMAIN self[1].edge_insets_dict = {"cid00002"}
    /\ self[1].edge_insets_dict["cid00002"] = EdgeInsets(10, -10, 0, 0)
    /\ ret # <<>>
    /\ FoundInsets("b") # <<>>
    /\ FoundInsets("a") = <<>>
    /\ DOMAIN arg[<<"b", "m1">>].anchors = {"top"} \cup SideBearingAnchors
    /\ DOMAIN layers[<<"b", "m1">>].anchors = {"top", "LSB", "RSB"}
    /\ DOMAIN arg[<<"a", "m2">>].anchors = {"top", "LSB", "BSB"}
    /\ DOMAIN layers[<<"a", "m2">>].anchors = {"top"}

====
